---- MODULE Spec2Model ----
(***************************************************************************)
(* A model of the AI-HERO-Health pipeline glue code:                       *)
(*   - HealthDataset            (src/src/datamodules/datasets/health.py)   *)
(*   - MViTDataModule(Testing)  (src/src/datamodules/mvit_datamodule.py)   *)
(*   - EFFILitModule            (src/src/models/effinet_module.py)         *)
(*   - MVITLitModule, load_config (src/src/models/mvit_module.py)          *)
(*                                                                         *)
(* Python indices are 0-based; the sequences below are 1-based, so row idx *)
(* of the code is element idx + 1 here.                                    *)
(***************************************************************************)
EXTENDS Integers, Sequences, FiniteSets, TLC

(***************************************************************************)
(* Bounds                                                                  *)
(***************************************************************************)
\* largest number of rows of a label table
MaxRows == 2
\* largest number of setup calls on one data module
MaxSetups == 3
\* samples per batch, largest loss value, batches stepped on in one run
BatchSize == 1
MaxLoss == 2
MaxSteps == 2

(***************************************************************************)
(* The environment of HealthDataset: the image directory and the CSV.      *)
(* A single-channel image is abstracted to one uint8 intensity.            *)
(***************************************************************************)
Missing == "missing"
Malformed == "malformed"

\* the files of the image directory: intensity, or why Image.open fails
Disk == [name \in {"a.png", "b.png", "c.png", "d.png"} |->
           CASE name = "a.png" -> [file |-> "image", v |-> 10]
             [] name = "b.png" -> [file |-> "image", v |-> 200]
             [] name = "c.png" -> [file |-> Missing, v |-> 0]
             [] OTHER          -> [file |-> Malformed, v |-> 0]]

Names == DOMAIN Disk
LabelStrings == {"negative", "positive"}
NoLabel == "nolabel"

\* sequences over S of length 0..n
RECURSIVE SeqsUpTo(_, _)
SeqsUpTo(S, n) ==
    IF n = 0 THEN {<< >>}
    ELSE LET shorter == SeqsUpTo(S, n - 1)
         IN  shorter \cup {Append(s, x) : s \in {t \in shorter : Len(t) = n - 1}, x \in S}

\* pd.read_csv(label_path, header=0): a table with an image column and an
\* optional label column
Tables ==
    {[hasLabel |-> TRUE, rows |-> r] :
        r \in SeqsUpTo([image : Names, label : LabelStrings], MaxRows)}
    \cup
    {[hasLabel |-> FALSE, rows |-> r] :
        r \in SeqsUpTo([image : Names, label : {NoLabel}], MaxRows)}

\* caller-supplied callables; None is Python's None
None == "None"
Transforms == {None, "pure", "inplace"}
TargetTransforms == {None, "tt"}

NoExc == "none"

\* values handed around: an image object and a label
NoImage == [tag |-> "none", px |-> <<0, 0, 0>>]
NoLabelVal == [t |-> "none", f |-> 0, s |-> "", tt |-> FALSE]
FloatLabel(x) == [t |-> "float", f |-> x, s |-> "", tt |-> FALSE]
StrLabel(x) == [t |-> "str", f |-> 0, s |-> x, tt |-> FALSE]

(***************************************************************************)
(* State                                                                   *)
(***************************************************************************)
VARIABLES
    \* HealthDataset
    df,                \* self.df
    load_ram,          \* the load_ram argument / self.load_ram
    transform,         \* self.transform
    target_transform,  \* self.target_transform
    pc,                \* position of __init__: new, loading, constructed, raised
    labels,            \* self.labels
    names,             \* self.names
    images,            \* self.images (the cache)
    task,              \* joblib task i: pending, running, done, failed
    results,           \* result of task i
    finished,          \* task indices in order of completion
    ret,               \* history: the last call on the dataset and its outcome
    \* MViTDataModule and MViTDataModuleTesting
    csv,               \* the tables behind hparams.train_path, val_path, test_path
    data_train,        \* MViTDataModule.data_train
    data_val,          \* MViTDataModule.data_val
    data_test,         \* MViTDataModule.data_test
    testing_data_test, \* MViTDataModuleTesting.data_test
    built,             \* number of HealthDataset objects built so far
    setups,            \* number of setup calls so far, per data module
    dm_ret,            \* history: the last setup call and its outcome
    \* EFFILitModule / MVITLitModule and load_config
    lm_kind,           \* which of the two classes the module is
    yaml_file,         \* the YAML configuration file: well formed or not
    lm_pc,             \* new, constructed, fit (optimizers configured), raised
    attrs,             \* the attributes __init__ has set on the module
    metrics,           \* accumulated state of the Accuracy/Precision/Recall metrics
    val_acc_best,      \* state of the MaxMetric
    sched,             \* the ReduceLROnPlateau scheduler and the optimizer's lr
    sched_in,          \* history: who stepped the scheduler last, with which split's loss
    logs,              \* last value given to self.log, per key
    warnings,          \* what logger.warning has written
    steps,             \* number of training/validation/test steps so far
    lm_ret,            \* history: the last call on the module and its outcome
    \* the trainer that drives the module
    phase,             \* idle, val (validation batches running), val_end
    epoch_batches,     \* history: what the current validation epoch's batches add up to
    epoch_accs         \* history: the accuracy of each finished validation epoch

varsDS == <<df, load_ram, transform, target_transform, pc, labels, names,
            images, task, results, finished, ret>>

varsDM == <<csv, data_train, data_val, data_test, testing_data_test, built,
            setups, dm_ret>>

varsTrainer == <<phase, epoch_batches, epoch_accs>>

varsLM == <<lm_kind, yaml_file, lm_pc, attrs, metrics, val_acc_best, sched,
            sched_in, logs, warnings, steps, lm_ret, varsTrainer>>

vars == <<varsDS, varsDM, varsLM>>

(***************************************************************************)
(* HealthDataset: pure parts                                               *)
(***************************************************************************)
Min(a, b) == IF a < b THEN a ELSE b

\* cv2 CLAHE on the one-intensity abstraction: a contrast stretch that
\* saturates at the top of uint8
clahe_apply(v) == Min(2 * v, 255)

\* preproc_image with a handler that swallows the failure of Image.open
preproc_image_swallow(name) ==
    IF Disk[name].file # "image" THEN [exc |-> NoExc, img |-> NoImage]
    ELSE LET image == clahe_apply(Disk[name].v)
         IN  [exc |-> NoExc, img |-> [tag |-> "RGB", px |-> <<image, image, image>>]]

\* health.py preproc_image: open, CLAHE, stack to three channels, uint8
preproc_image(name) ==
    IF Disk[name].file = Missing THEN [exc |-> "FileNotFoundError", img |-> NoImage]
    ELSE IF Disk[name].file = Malformed THEN [exc |-> "UnidentifiedImageError", img |-> NoImage]
    ELSE LET image == clahe_apply(Disk[name].v)
             trans == <<image, image, image>>
         IN  [exc |-> NoExc, img |-> [tag |-> "RGB", px |-> [c \in 1..3 |-> trans[c] % 256]]]

\* torch.FloatTensor(list).squeeze(): a 1-d tensor whose dimensions of size 1
\* are removed, so a one-element list gives a 0-dim tensor
squeeze(t) ==
    [t EXCEPT !.shape = SelectSeq(t.shape, LAMBDA d : d # 1)]

FloatTensor(list) == [kind |-> "tensor", shape |-> <<Len(list)>>, data |-> list]

\* health.py line 16 / line 18
MakeLabels(table) ==
    IF table.hasLabel
    THEN squeeze(FloatTensor(
            [i \in 1..Len(table.rows) |->
                FloatLabel(IF table.rows[i].label = "negative" THEN 0 ELSE 1)]))
    ELSE [kind |-> "list", shape |-> << >>,
          data |-> [i \in 1..Len(table.rows) |-> StrLabel(table.rows[i].image)]]

\* health.py line 19
MakeNames(table) == [i \in 1..Len(table.rows) |-> table.rows[i].image]

\* self.labels.shape[0]
dunder_len(lab) ==
    IF lab.kind = "list" THEN [exc |-> "AttributeError", val |-> 0]
    ELSE IF Len(lab.shape) = 0 THEN [exc |-> "IndexError", val |-> 0]
    ELSE [exc |-> NoExc, val |-> lab.shape[1]]

\* self.labels[idx]
labels_index(lab, idx) ==
    IF lab.kind = "tensor" /\ Len(lab.shape) = 0 THEN [exc |-> "IndexError", val |-> NoLabelVal]
    ELSE IF idx + 1 \in 1..Len(lab.data) THEN [exc |-> NoExc, val |-> lab.data[idx + 1]]
    ELSE [exc |-> "IndexError", val |-> NoLabelVal]

\* load_image without the .copy(): the cached object itself is handed out
load_image_nocopy(idx) ==
    IF load_ram
    THEN IF idx + 1 \in 1..Len(images)
         THEN [exc |-> NoExc, cell |-> idx + 1, img |-> images[idx + 1]]
         ELSE [exc |-> "IndexError", cell |-> 0, img |-> NoImage]
    ELSE IF idx + 1 \in 1..Len(names)
         THEN LET p == preproc_image(names[idx + 1])
              IN  [exc |-> p.exc, cell |-> 0, img |-> p.img]
         ELSE [exc |-> "IndexError", cell |-> 0, img |-> NoImage]

\* health.py load_image: a copy of the cached object, or a fresh decode.
\* cell is the cache cell the returned object IS (0: a fresh object).
load_image(idx) ==
    IF load_ram
    THEN IF idx + 1 \in 1..Len(images)
         THEN [exc |-> NoExc, cell |-> 0, img |-> images[idx + 1]]
         ELSE [exc |-> "IndexError", cell |-> 0, img |-> NoImage]
    ELSE IF idx + 1 \in 1..Len(names)
         THEN LET p == preproc_image(names[idx + 1])
              IN  [exc |-> p.exc, cell |-> 0, img |-> p.img]
         ELSE [exc |-> "IndexError", cell |-> 0, img |-> NoImage]

\* the caller's transform: "pure" builds a new image, "inplace" scribbles on
\* the object it is handed and returns it
ApplyTransform(t, img) ==
    CASE t = None      -> img
      [] t = "pure"    -> [img EXCEPT !.tag = "transformed"]
      [] OTHER         -> [img EXCEPT !.tag = "scribbled"]

ApplyTargetTransform(t, l) == IF t = None THEN l ELSE [l EXCEPT !.tt = TRUE]

\* results gathered as the tasks complete instead of in input order
ParallelResults_unordered(res, order) == [i \in 1..Len(order) |-> res[order[i]]]

\* joblib.Parallel(...)(tasks): the list of results, in input order
ParallelResults(res, order) == [i \in 1..Len(order) |-> res[i]]

(***************************************************************************)
(* Data modules: pure parts                                                *)
(***************************************************************************)
UnsetLabels == [kind |-> "unset", shape |-> << >>, data |-> << >>]

\* Python's None as the value of a data_* attribute
NoneObj == [id |-> 0, labels |-> UnsetLabels, images |-> << >>, load_ram |-> FALSE]

\* HealthDataset(label_path, img_dir, ...) as one call: the object __init__
\* returns (with identity id), or the exception of the first failing task
HealthDataset(table, lr, id) ==
    LET n   == Len(table.rows)
        pre == [i \in 1..n |-> preproc_image(table.rows[i].image)]
        bad == {i \in 1..n : pre[i].exc # NoExc}
    IN  IF lr /\ bad # {}
        THEN [exc |-> pre[CHOOSE i \in bad : \A j \in bad : i <= j].exc, obj |-> NoneObj]
        ELSE [exc |-> NoExc,
              obj |-> [id |-> id, labels |-> MakeLabels(table),
                       images |-> IF lr
                                  THEN ParallelResults([i \in 1..n |-> pre[i].img],
                                                       [i \in 1..n |-> i])
                                  ELSE << >>,
                       load_ram |-> lr]]

\* bool(x) of a data_* attribute: None is false, a HealthDataset has no
\* __bool__, so Python asks its __len__
truth(obj) ==
    IF obj = NoneObj THEN [exc |-> NoExc, val |-> FALSE]
    ELSE LET l == dunder_len(obj.labels)
         IN  [exc |-> l.exc, val |-> l.exc = NoExc /\ l.val # 0]

\* not a and not b and not c, left to right with short circuit
not_all(a, b, c) ==
    LET ta == truth(a)
        tb == truth(b)
        tc == truth(c)
    IN  IF ta.exc # NoExc THEN [exc |-> ta.exc, val |-> FALSE]
        ELSE IF ta.val THEN [exc |-> NoExc, val |-> FALSE]
        ELSE IF tb.exc # NoExc THEN [exc |-> tb.exc, val |-> FALSE]
        ELSE IF tb.val THEN [exc |-> NoExc, val |-> FALSE]
        ELSE IF tc.exc # NoExc THEN [exc |-> tc.exc, val |-> FALSE]
        ELSE [exc |-> NoExc, val |-> ~tc.val]

\* mvit_datamodule.py line 93
setup_must_load == not_all(data_train, data_val, data_test)

\* the tables the data modules are pointed at
ConstTable(n, name, h) ==
    [hasLabel |-> h,
     rows |-> [i \in 1..n |->
                [image |-> name,
                 label |-> IF ~h THEN NoLabel
                           ELSE IF i % 2 = 1 THEN "negative" ELSE "positive"]]]

TrainTables == {ConstTable(n, name, TRUE) : n \in 0..MaxRows, name \in {"a.png", "c.png"}}
TestTables == {ConstTable(n, name, h) :
                 n \in 0..MaxRows, name \in {"a.png", "c.png"}, h \in BOOLEAN}

NoSetup == [who |-> "none", stage |-> None, exc |-> NoExc, new |-> 0]

IdleDM ==
    /\ csv = [train |-> ConstTable(0, "a.png", TRUE),
              val |-> ConstTable(0, "a.png", TRUE),
              test |-> ConstTable(0, "a.png", TRUE)]
    /\ data_train = NoneObj
    /\ data_val = NoneObj
    /\ data_test = NoneObj
    /\ testing_data_test = NoneObj
    /\ built = 0
    /\ setups = [dm |-> 0, testing |-> 0]
    /\ dm_ret = NoSetup

(***************************************************************************)
(* Lightning modules: pure parts.  Real numbers are kept exact: a learning *)
(* rate is counted in units of 1/Scale, a metric value is a fraction.      *)
(***************************************************************************)
Scale == 10000
\* hparams defaults, in units of 1/Scale
lr_hparam == 10
lr_scheduler_min_lr == 5
lr_scheduler_factor == 5
lr_scheduler_patience == 5
\* ReduceLROnPlateau's relative threshold 1e-4, in units of 1/Scale
threshold == 1

Max(a, b) == IF a > b THEN a ELSE b

Kinds == {"EFFI", "MVIT"}
Splits == {"train", "val", "test"}
Losses == 1..MaxLoss

\* a batch as the step sees it: how many of its BatchSize samples fall in
\* each (prediction, target) class (the order of the samples plays no part
\* in any metric), and the loss the criterion gives
Confusions ==
    {c \in [tp : 0..BatchSize, fp : 0..BatchSize, fn : 0..BatchSize, tn : 0..BatchSize] :
        c.tp + c.fp + c.fn + c.tn = BatchSize}

Batches(split) == [split : {split}, conf : Confusions, loss : Losses]

\* the attributes each __init__ assigns (effinet_module.py 58-65,
\* mvit_module.py 117-122): neither assigns test_acc
InitAttrs(kind) ==
    IF kind = "EFFI"
    THEN {"train_acc", "train_precision", "train_recall", "val_acc", "val_acc_best"}
    ELSE {"train_acc", "val_acc", "val_acc_best"}

MetricNames == {"train_acc", "train_precision", "train_recall", "val_acc", "test_acc"}

\* a metric right after construction or reset()
ResetState == [num |-> 0, den |-> 0]

\* what one batch adds to a metric's accumulators
\*   Accuracy:          correct predictions / samples
\*   Recall:            true positives / positive targets
\*   AveragePrecision:  positive targets / samples stored
BatchStat(name, c) ==
    CASE name = "train_recall" ->
            [num |-> c.tp, den |-> c.tp + c.fn]
      [] name = "train_precision" ->
            [num |-> c.tp + c.fn, den |-> c.tp + c.fp + c.fn + c.tn]
      [] OTHER ->
            [num |-> c.tp + c.tn, den |-> c.tp + c.fp + c.fn + c.tn]

\* metric(preds, targets): accumulate the batch, return the batch's value
MetricForward(m, name, c) ==
    [m EXCEPT ![name] = [num |-> @.num + BatchStat(name, c).num,
                         den |-> @.den + BatchStat(name, c).den]]

\* values of metrics and of logged scalars: a fraction, nan (0/0) or -inf
Frac(n, d) == [k |-> IF d = 0 THEN "nan" ELSE "frac", num |-> n, den |-> d]
NegInf == [k |-> "neginf", num |-> 0, den |-> 1]
NoValue == [k |-> "none", num |-> 0, den |-> 1]

\* metric.compute()
Compute(st) == Frac(st.num, st.den)

\* MaxMetric.update: torch.max of the stored value and the new one
MaxUpdate(cur, x) ==
    IF cur.k = "nan" \/ x.k = "nan" THEN [k |-> "nan", num |-> 0, den |-> 0]
    ELSE IF cur.k = "neginf" THEN x
    ELSE IF x.num * cur.den > cur.num * x.den THEN x ELSE cur

\* torch.optim.lr_scheduler.ReduceLROnPlateau(optimizer, "min", factor,
\* patience, min_lr) on Adam(lr): state after construction
NewScheduler ==
    [best_inf |-> TRUE, best |-> 0, num_bad_epochs |-> 0, lr |-> lr_hparam]

\* scheduler.step(metric)
scheduler_step(sc, metric) ==
    LET better == sc.best_inf \/ metric * Scale < sc.best * (Scale - threshold)
        bad    == IF better THEN 0 ELSE sc.num_bad_epochs + 1
        reduce == bad * Scale > lr_scheduler_patience
        new_lr == Max((sc.lr * lr_scheduler_factor) \div Scale, lr_scheduler_min_lr)
    IN  [best_inf |-> FALSE,
         best |-> IF better THEN metric ELSE sc.best,
         num_bad_epochs |-> IF reduce THEN 0 ELSE bad,
         lr |-> IF reduce /\ sc.lr - new_lr > 0 THEN new_lr ELSE sc.lr]

NoSchedIn == [by |-> "none", split |-> "none"]

\* the names mvit_module.py binds at module level
ModuleGlobals ==
    {"torch", "nn", "LightningModule", "MaxMetric", "Accuracy",
     "build_classification_model", "argparse", "yaml", "collections",
     "SimpleNamespace", "flatten_yaml_as_dict", "NestedNamespace",
     "load_config", "MVITLitModule", "Any", "List"}

\* mvit_module.py load_config: the outcome of one call
load_config(file) ==
    IF file = "wellformed"
    THEN [exc |-> NoExc, obj_cfg |-> "cfg", warned |-> << >>]
    ELSE \* yaml.YAMLError is caught; the handler reads is_master_node first
         IF "is_master_node" \notin ModuleGlobals
         THEN [exc |-> "NameError", obj_cfg |-> "unbound", warned |-> << >>]
         ELSE IF "logger" \notin ModuleGlobals
         THEN [exc |-> "NameError", obj_cfg |-> "unbound", warned |-> << >>]
         ELSE \* return obj_cfg with obj_cfg never assigned
              [exc |-> "UnboundLocalError", obj_cfg |-> "unbound",
               warned |-> <<"Error while loading config file", "Error message">>]

\* the logged keys that are read back: the scheduler's monitor and the best
\* accuracy (the other self.log calls only write to the logger)
LogKeys == {"val/loss", "val/acc_best"}
NoLog == [split |-> "none", v |-> NoValue]

\* what a call on the module gave: the exception, or the keys of the
\* returned dict and its loss, or the configuration object
StepKeys == {"loss", "preds", "targets"}
LMRet(op, exc, batch, cfg) ==
    [op |-> op, exc |-> exc,
     keys |-> IF exc = NoExc /\ batch.split # "none" THEN StepKeys ELSE {},
     cfg |-> cfg]
NoBatch == [split |-> "none", conf |-> [tp |-> 0, fp |-> 0, fn |-> 0, tn |-> 0], loss |-> 0]

\* training_step with the scheduler step of mvit_module.py 142-143 enabled
training_step_sched_stepped(sc, sin, batch) ==
    [sched |-> scheduler_step(sc, batch.loss),
     sched_in |-> [by |-> "training_step", split |-> batch.split]]

\* on_epoch_end with the val_acc reset left out
on_epoch_end_resets_no_val(kind, m) ==
    IF kind = "EFFI"
    THEN [m EXCEPT !["train_acc"] = ResetState, !["train_precision"] = ResetState]
    ELSE [m EXCEPT !["train_acc"] = ResetState]

\* the resets of on_epoch_end (effinet_module.py 141-145, mvit_module.py 187-189)
on_epoch_end_resets(kind, m) ==
    IF kind = "EFFI"
    THEN [m EXCEPT !["train_acc"] = ResetState,
                   !["train_precision"] = ResetState,
                   !["val_acc"] = ResetState]
    ELSE [m EXCEPT !["train_acc"] = ResetState,
                   !["val_acc"] = ResetState]

\* what training_step does to the scheduler: nothing (mvit_module.py
\* 142-143 are commented out, effinet_module.py has no such lines)
training_step_sched(sc, sin, batch) == [sched |-> sc, sched_in |-> sin]

IdleLM ==
    /\ lm_kind = "EFFI"
    /\ yaml_file = "wellformed"
    /\ lm_pc = "new"
    /\ attrs = {}
    /\ metrics = [n \in MetricNames |-> ResetState]
    /\ val_acc_best = NegInf
    /\ sched = NewScheduler
    /\ sched_in = NoSchedIn
    /\ logs = [k \in LogKeys |-> NoLog]
    /\ warnings = << >>
    /\ steps = 0
    /\ lm_ret = LMRet("none", NoExc, NoBatch, "none")
    /\ phase = "idle"
    /\ epoch_batches = ResetState
    /\ epoch_accs = << >>

(***************************************************************************)
(* HealthDataset: actions                                                  *)
(***************************************************************************)
Return(op, idx, exc, img, lab, n) ==
    [op |-> op, idx |-> idx, exc |-> exc, image |-> img, label |-> lab, n |-> n]
NoRet == Return("none", 0, NoExc, NoImage, NoLabelVal, 0)
Unset == << >>

IdleDS ==
    /\ df = [hasLabel |-> FALSE, rows |-> << >>]
    /\ load_ram = FALSE
    /\ transform = None
    /\ target_transform = None
    /\ pc = "new"
    /\ labels = UnsetLabels
    /\ names = << >>
    /\ images = Unset
    /\ task = << >>
    /\ results = << >>
    /\ finished = << >>
    /\ ret = NoRet

InitDS ==
    /\ df \in Tables
    /\ load_ram \in BOOLEAN
    /\ transform \in Transforms
    /\ target_transform \in TargetTransforms
    /\ pc = "new"
    /\ labels = UnsetLabels
    /\ names = << >>
    /\ images = Unset
    /\ task = << >>
    /\ results = << >>
    /\ finished = << >>
    /\ ret = NoRet
    /\ IdleDM
    /\ IdleLM

\* __init__ lines 13-25 and, for load_ram=False, line 31
InitBegin ==
    /\ pc = "new"
    /\ labels' = MakeLabels(df)
    /\ names' = MakeNames(df)
    /\ IF load_ram
       THEN /\ images' = << >>
            /\ pc' = "loading"
            /\ task' = [i \in 1..Len(df.rows) |-> "pending"]
            /\ results' = [i \in 1..Len(df.rows) |-> NoImage]
       ELSE /\ pc' = "constructed"
            /\ UNCHANGED <<images, task, results>>
    /\ UNCHANGED <<df, load_ram, transform, target_transform, finished, ret>>
    /\ UNCHANGED <<varsDM, varsLM>>

\* a joblib worker picks up task i
TaskStart(i) ==
    /\ pc = "loading"
    /\ task[i] = "pending"
    /\ task' = [task EXCEPT ![i] = "running"]
    /\ UNCHANGED <<df, load_ram, transform, target_transform, pc, labels, names,
                   images, results, finished, ret>>
    /\ UNCHANGED <<varsDM, varsLM>>

\* task i, preproc_image(image_path + names[i]), returns or raises
TaskFinish(i) ==
    /\ pc = "loading"
    /\ task[i] = "running"
    /\ LET p == preproc_image(names[i])
       IN  /\ task' = [task EXCEPT ![i] = IF p.exc = NoExc THEN "done" ELSE "failed"]
           /\ results' = [results EXCEPT ![i] = p.img]
    /\ finished' = Append(finished, i)
    /\ UNCHANGED <<df, load_ram, transform, target_transform, pc, labels, names,
                   images, ret>>
    /\ UNCHANGED <<varsDM, varsLM>>

\* line 30 assigns the results of Parallel, line 31 ends __init__
InitEnd ==
    /\ pc = "loading"
    /\ \A i \in DOMAIN task : task[i] = "done"
    /\ images' = ParallelResults(results, finished)
    /\ pc' = "constructed"
    /\ UNCHANGED <<df, load_ram, transform, target_transform, labels, names,
                   task, results, finished, ret>>
    /\ UNCHANGED <<varsDM, varsLM>>

\* a task raised: Parallel re-raises in __init__, no object is returned
InitRaise ==
    /\ pc = "loading"
    /\ \E i \in DOMAIN task : task[i] = "failed"
    /\ pc' = "raised"
    /\ UNCHANGED <<df, load_ram, transform, target_transform, labels, names,
                   images, task, results, finished, ret>>
    /\ UNCHANGED <<varsDM, varsLM>>

\* health.py __getitem__
GetItem(idx) ==
    /\ pc = "constructed"
    /\ LET li  == load_image(idx)
           lab == labels_index(labels, idx)
       IN  IF li.exc # NoExc
           THEN /\ ret' = Return("getitem", idx, li.exc, NoImage, NoLabelVal, 0)
                /\ UNCHANGED images
           ELSE IF lab.exc # NoExc
           THEN /\ ret' = Return("getitem", idx, lab.exc, NoImage, NoLabelVal, 0)
                /\ UNCHANGED images
           ELSE /\ ret' = Return("getitem", idx, NoExc,
                                 ApplyTransform(transform, li.img),
                                 ApplyTargetTransform(target_transform, lab.val), 0)
                /\ images' = IF transform = "inplace" /\ li.cell # 0
                             THEN [images EXCEPT ![li.cell] = ApplyTransform(transform, li.img)]
                             ELSE images
    /\ UNCHANGED <<df, load_ram, transform, target_transform, pc, labels, names,
                   task, results, finished>>
    /\ UNCHANGED <<varsDM, varsLM>>

\* health.py load_image called directly; the caller may scribble on what it gets
LoadImage(idx, scribble) ==
    /\ pc = "constructed"
    /\ LET li == load_image(idx)
       IN  /\ ret' = Return("load_image", idx, li.exc, li.img, NoLabelVal, 0)
           /\ images' = IF li.exc = NoExc /\ scribble /\ li.cell # 0
                        THEN [images EXCEPT ![li.cell] = ApplyTransform("inplace", li.img)]
                        ELSE images
    /\ UNCHANGED <<df, load_ram, transform, target_transform, pc, labels, names,
                   task, results, finished>>
    /\ UNCHANGED <<varsDM, varsLM>>

\* health.py __len__
DunderLen ==
    /\ pc = "constructed"
    /\ LET l == dunder_len(labels)
       IN  ret' = Return("len", 0, l.exc, NoImage, NoLabelVal, l.val)
    /\ UNCHANGED <<df, load_ram, transform, target_transform, pc, labels, names,
                   images, task, results, finished>>
    /\ UNCHANGED <<varsDM, varsLM>>

NextDS ==
    \/ InitBegin
    \/ \E i \in 1..MaxRows + 1 : i \in DOMAIN task /\ TaskStart(i)
    \/ \E i \in 1..MaxRows + 1 : i \in DOMAIN task /\ TaskFinish(i)
    \/ InitEnd
    \/ InitRaise
    \/ \E idx \in 0..Len(df.rows) : GetItem(idx)
    \/ \E idx \in 0..Len(df.rows), s \in BOOLEAN : LoadImage(idx, s)
    \/ DunderLen

Spec == InitDS /\ [][NextDS]_vars

(***************************************************************************)
(* Data modules: actions                                                   *)
(***************************************************************************)
Stages == {None, "fit", "test"}

InitDM ==
    /\ csv \in [train : TrainTables, val : TrainTables, test : TestTables]
    /\ data_train = NoneObj
    /\ data_val = NoneObj
    /\ data_test = NoneObj
    /\ testing_data_test = NoneObj
    /\ built = 0
    /\ setups = [dm |-> 0, testing |-> 0]
    /\ dm_ret = NoSetup
    /\ IdleDS
    /\ IdleLM

\* MViTDataModule.setup
setup(stage) ==
    /\ setups.dm < MaxSetups
    /\ setups' = [setups EXCEPT !.dm = @ + 1]
    /\ LET c  == setup_must_load
           tr == HealthDataset(csv.train, TRUE, built + 1)
           va == HealthDataset(csv.val, TRUE, built + 2)
           Ret(e, k) == [who |-> "MViTDataModule", stage |-> stage, exc |-> e, new |-> k]
       IN  IF c.exc # NoExc \/ ~c.val
           THEN /\ dm_ret' = Ret(c.exc, 0)
                /\ UNCHANGED <<data_train, data_val, built>>
           ELSE IF tr.exc # NoExc
           THEN /\ dm_ret' = Ret(tr.exc, 0)
                /\ UNCHANGED <<data_train, data_val, built>>
           ELSE IF va.exc # NoExc
           THEN /\ dm_ret' = Ret(va.exc, 1)
                /\ data_train' = tr.obj
                /\ built' = built + 1
                /\ UNCHANGED data_val
           ELSE /\ dm_ret' = Ret(NoExc, 2)
                /\ data_train' = tr.obj
                /\ data_val' = va.obj
                /\ built' = built + 2
    /\ UNCHANGED <<csv, data_test, testing_data_test>>
    /\ UNCHANGED <<varsDS, varsLM>>

\* MViTDataModuleTesting.setup
testing_setup(stage) ==
    /\ setups.testing < MaxSetups
    /\ setups' = [setups EXCEPT !.testing = @ + 1]
    /\ LET te == HealthDataset(csv.test, FALSE, built + 1)
       IN  /\ testing_data_test' = te.obj
           /\ built' = built + 1
           /\ dm_ret' = [who |-> "MViTDataModuleTesting", stage |-> stage,
                          exc |-> te.exc, new |-> 1]
    /\ UNCHANGED <<csv, data_train, data_val, data_test>>
    /\ UNCHANGED <<varsDS, varsLM>>

NextDM ==
    \/ \E stage \in Stages : setup(stage)
    \/ \E stage \in Stages : testing_setup(stage)

SpecDM == InitDM /\ [][NextDM]_vars

(***************************************************************************)
(* Lightning modules: actions                                              *)
(***************************************************************************)
InitLM ==
    /\ lm_kind \in Kinds
    /\ yaml_file \in {"wellformed", "malformed"}
    /\ lm_pc = "new"
    /\ attrs = {}
    /\ metrics = [n \in MetricNames |-> ResetState]
    /\ val_acc_best = NegInf
    /\ sched = NewScheduler
    /\ sched_in = NoSchedIn
    /\ logs = [k \in LogKeys |-> NoLog]
    /\ warnings = << >>
    /\ steps = 0
    /\ lm_ret = LMRet("none", NoExc, NoBatch, "none")
    /\ phase = "idle"
    /\ epoch_batches = ResetState
    /\ epoch_accs = << >>
    /\ IdleDS
    /\ IdleDM

Log(l, key, split, v) == [l EXCEPT ![key] = [split |-> split, v |-> v]]

\* load_config called on its own, before any fitting
LoadConfig ==
    /\ lm_pc # "fit"
    /\ LET r == load_config(yaml_file)
       IN  /\ lm_ret' = LMRet("load_config", r.exc, NoBatch, r.obj_cfg)
           /\ warnings' = warnings \o r.warned
    /\ UNCHANGED <<lm_kind, yaml_file, lm_pc, attrs, metrics, val_acc_best, sched,
                   sched_in, logs, steps>>
    /\ UNCHANGED <<varsDS, varsDM>>
    /\ UNCHANGED varsTrainer

\* EFFILitModule.__init__ / MVITLitModule.__init__
Construct ==
    /\ lm_pc = "new"
    /\ LET r == IF lm_kind = "MVIT" THEN load_config(yaml_file)
                ELSE [exc |-> NoExc, obj_cfg |-> "none", warned |-> << >>]
       IN  /\ lm_ret' = LMRet("__init__", r.exc, NoBatch, r.obj_cfg)
           /\ warnings' = warnings \o r.warned
           /\ lm_pc' = IF r.exc = NoExc THEN "constructed" ELSE "raised"
           /\ attrs' = IF r.exc = NoExc THEN InitAttrs(lm_kind) ELSE attrs
    /\ metrics' = [n \in MetricNames |-> ResetState]
    /\ val_acc_best' = NegInf
    /\ UNCHANGED <<lm_kind, yaml_file, sched, sched_in, logs, steps>>
    /\ UNCHANGED <<varsDS, varsDM>>
    /\ UNCHANGED varsTrainer

\* configure_optimizers, called by the trainer when fitting starts
ConfigureOptimizers ==
    /\ lm_pc = "constructed"
    /\ lm_pc' = "fit"
    /\ sched' = NewScheduler
    /\ lm_ret' = LMRet("configure_optimizers", NoExc, NoBatch, "none")
    /\ UNCHANGED <<lm_kind, yaml_file, attrs, metrics, val_acc_best, sched_in,
                   logs, warnings, steps>>
    /\ UNCHANGED <<varsDS, varsDM>>
    /\ UNCHANGED varsTrainer

\* training_step
TrainingStep(b) ==
    /\ phase = "idle"
    /\ lm_pc = "fit"
    /\ steps < MaxSteps
    /\ steps' = steps + 1
    /\ metrics' = IF lm_kind = "EFFI"
                  THEN MetricForward(MetricForward(MetricForward(metrics,
                           "train_acc", b.conf), "train_precision", b.conf),
                           "train_recall", b.conf)
                  ELSE MetricForward(metrics, "train_acc", b.conf)
    /\ UNCHANGED logs
    /\ sched' = training_step_sched(sched, sched_in, b).sched
    /\ sched_in' = training_step_sched(sched, sched_in, b).sched_in
    /\ lm_ret' = LMRet("training_step", NoExc, b, "none")
    /\ UNCHANGED <<lm_kind, yaml_file, lm_pc, attrs, val_acc_best, warnings>>
    /\ UNCHANGED <<varsDS, varsDM>>
    /\ UNCHANGED varsTrainer

\* validation_step
ValidationStep(b) ==
    /\ phase \in {"idle", "val"}
    /\ lm_pc = "fit"
    /\ steps < MaxSteps
    /\ steps' = steps + 1
    /\ metrics' = MetricForward(metrics, "val_acc", b.conf)
    /\ logs' = Log(logs, "val/loss", b.split, Frac(b.loss, 1))
    /\ sched' = scheduler_step(sched, b.loss)
    /\ sched_in' = [by |-> "validation_step", split |-> b.split]
    /\ lm_ret' = LMRet("validation_step", NoExc, b, "none")
    /\ UNCHANGED <<lm_kind, yaml_file, lm_pc, attrs, val_acc_best, warnings>>
    /\ UNCHANGED <<varsDS, varsDM>>
    /\ phase' = "val"
    /\ epoch_batches' = [num |-> epoch_batches.num + BatchStat("val_acc", b.conf).num,
                          den |-> epoch_batches.den + BatchStat("val_acc", b.conf).den]
    /\ UNCHANGED epoch_accs

\* validation_epoch_end: called by the trainer after the last validation
\* batch of an epoch
ValidationEpochEnd ==
    /\ phase = "val"
    /\ lm_pc = "fit"
    /\ LET acc  == Compute(metrics["val_acc"])
           best == MaxUpdate(val_acc_best, acc)
       IN  /\ val_acc_best' = best
           /\ logs' = Log(logs, "val/acc_best", "val", best)
           /\ metrics' = IF lm_kind = "EFFI"
                         THEN [metrics EXCEPT !["val_acc"] = ResetState]
                         ELSE metrics
    /\ lm_ret' = LMRet("validation_epoch_end", NoExc, NoBatch, "none")
    /\ UNCHANGED <<lm_kind, yaml_file, lm_pc, attrs, sched, sched_in, warnings, steps>>
    /\ UNCHANGED <<varsDS, varsDM>>
    /\ phase' = "val_end"
    /\ epoch_accs' = Append(epoch_accs, Compute(epoch_batches))
    /\ epoch_batches' = ResetState

\* the trainer's own scheduler step at the end of an epoch, with the value
\* logged under the configured monitor key "val/loss"
TrainerSchedulerStep ==
    /\ phase = "idle"
    /\ lm_pc = "fit"
    /\ logs["val/loss"] # NoLog
    /\ sched' = scheduler_step(sched, logs["val/loss"].v.num)
    /\ sched_in' = [by |-> "trainer", split |-> logs["val/loss"].split]
    /\ lm_ret' = LMRet("trainer_scheduler_step", NoExc, NoBatch, "none")
    /\ UNCHANGED <<lm_kind, yaml_file, lm_pc, attrs, metrics, val_acc_best, logs,
                   warnings, steps>>
    /\ UNCHANGED <<varsDS, varsDM>>
    /\ UNCHANGED varsTrainer

\* on_epoch_end: the trainer calls it when a validation epoch is over, right
\* after validation_epoch_end, and when a training epoch is over
OnEpochEnd ==
    /\ phase \in {"idle", "val_end"}
    /\ lm_pc = "fit"
    /\ metrics' = on_epoch_end_resets(lm_kind, metrics)
    /\ lm_ret' = LMRet("on_epoch_end", NoExc, NoBatch, "none")
    /\ UNCHANGED <<lm_kind, yaml_file, lm_pc, attrs, val_acc_best, sched, sched_in,
                   logs, warnings, steps>>
    /\ UNCHANGED <<varsDS, varsDM>>
    /\ phase' = "idle"
    /\ UNCHANGED <<epoch_batches, epoch_accs>>

\* test_step: self.step(batch), then self.test_acc(preds, targets)
TestStep(b) ==
    /\ phase = "idle"
    /\ lm_pc \in {"constructed", "fit"}
    /\ steps < MaxSteps
    /\ steps' = steps + 1
    /\ IF "test_acc" \in attrs
       THEN /\ metrics' = MetricForward(metrics, "test_acc", b.conf)
            /\ lm_ret' = LMRet("test_step", NoExc, b, "none")
       ELSE /\ lm_ret' = LMRet("test_step", "AttributeError", b, "none")
            /\ UNCHANGED metrics
    /\ UNCHANGED logs
    /\ UNCHANGED <<lm_kind, yaml_file, lm_pc, attrs, val_acc_best, sched, sched_in,
                   warnings>>
    /\ UNCHANGED <<varsDS, varsDM>>
    /\ UNCHANGED varsTrainer

NextLM ==
    \/ LoadConfig
    \/ Construct
    \/ ConfigureOptimizers
    \/ \E b \in Batches("train") : TrainingStep(b)
    \/ \E b \in Batches("val") : ValidationStep(b)
    \/ ValidationEpochEnd
    \/ TrainerSchedulerStep
    \/ OnEpochEnd
    \/ \E b \in Batches("test") : TestStep(b)

SpecLM == InitLM /\ [][NextLM]_vars

(***************************************************************************)
(* Properties of the Lightning modules                                     *)
(***************************************************************************)
\* C5: training_step never steps the scheduler and leaves the scheduler and
\* the learning rate as they were, and whatever the scheduler is stepped with
\* is the loss of a validation batch.
C5_ScheduleFromValLoss ==
    /\ [](sched_in.by # "training_step" /\ sched_in.split \in {"none", "val"})
    /\ [][lm_ret'.op = "training_step" => (sched' = sched /\ sched_in' = sched_in)]_vars

\* the learning rate has been reduced by a validation loss, and a training
\* step came after it
C5_Witness ==
    /\ sched.lr < lr_hparam
    /\ sched_in.split = "val"
    /\ lm_ret.op = "training_step"

\* C7: when the YAML file does not parse, load_config logs the error and
\* does not re-raise the parse error, the configuration object staying
\* undefined.
C7_ParseErrorLogged ==
    (lm_ret.op = "load_config" /\ yaml_file = "malformed") =>
        /\ warnings # << >>
        /\ lm_ret.exc # "YAMLError"
        /\ lm_ret.cfg = "unbound"

\* C8: test_step on any batch, once the module is constructed, returns the
\* record of loss, preds and targets, as training_step and validation_step do.
C8_TestStepReturns ==
    lm_ret.op = "test_step" =>
        /\ lm_ret.exc = NoExc
        /\ lm_ret.keys = StepKeys

\* the train and validation metrics a module of this kind owns
EpochMetrics(kind) ==
    InitAttrs(kind) \cap {"train_acc", "train_precision", "train_recall", "val_acc"}

\* C11: after on_epoch_end every train and validation metric the module owns
\* is in its reset state, so nothing accumulated carries over into the next
\* epoch.
C11_MetricsResetAtEpochEnd ==
    lm_ret.op = "on_epoch_end" =>
        \A n \in EpochMetrics(lm_kind) : metrics[n] = ResetState

\* comparison of metric values that are fractions
ValLeq(a, b) == a.k = "frac" /\ b.k = "frac" /\ a.num * b.den <= b.num * a.den
ValEq(a, b) == ValLeq(a, b) /\ ValLeq(b, a)
LoggedBest == logs["val/acc_best"].v

\* C12: after every validation_epoch_end the logged val/acc_best is the
\* largest of the accuracies of the validation epochs run so far, each taken
\* over that epoch's batches only, and the logged value never decreases.
C12_BestIsMaxOfEpochs ==
    /\ [](lm_ret.op = "validation_epoch_end" =>
            /\ \E i \in DOMAIN epoch_accs : ValEq(LoggedBest, epoch_accs[i])
            /\ \A i \in DOMAIN epoch_accs : ValLeq(epoch_accs[i], LoggedBest))
    /\ [][logs["val/acc_best"] # NoLog => ValLeq(LoggedBest, LoggedBest')]_vars

\* a second validation epoch has ended with a lower accuracy than the first
C12_Witness ==
    /\ lm_ret.op = "validation_epoch_end"
    /\ Len(epoch_accs) >= 2
    /\ ValLeq(epoch_accs[Len(epoch_accs)], epoch_accs[1])
    /\ ~ValEq(epoch_accs[Len(epoch_accs)], epoch_accs[1])
    /\ ValEq(LoggedBest, epoch_accs[1])

(***************************************************************************)
(* Properties of the data modules                                          *)
(***************************************************************************)
\* C9: once a setup call of MViTDataModule has assigned data_train and
\* data_val, no later step assigns them again or builds another dataset for
\* this data module, whatever the size of the tables.
C9_SetupLoadsOnce ==
    [][(data_train # NoneObj /\ data_val # NoneObj /\ setups'.dm # setups.dm) =>
          (data_train' = data_train /\ data_val' = data_val /\ built' = built)]_vars

\* C10: once MViTDataModuleTesting.setup has assigned data_test, a later
\* setup call leaves data_test the same object.
C10_TestingSetupLoadsOnce ==
    [][(testing_data_test # NoneObj /\ setups'.testing # setups.testing) =>
          testing_data_test' = testing_data_test]_vars

(***************************************************************************)
(* Properties of HealthDataset                                             *)
(***************************************************************************)
NRows == Len(df.rows)
Readable(i) == Disk[df.rows[i].image].file = "image"
RowLabel(i) == FloatLabel(IF df.rows[i].label = "negative" THEN 0 ELSE 1)
Constructed == pc = "constructed"

\* C1: once the dataset is constructed with load_ram=True, the cache has one
\* entry per row of the table and entry i is the preprocessed image of the
\* file of row i, whatever the order in which the worker tasks ran.
C1_CacheAligned ==
    (Constructed /\ load_ram) =>
        /\ Len(images) = NRows
        /\ \A i \in 1..NRows : images[i] = preproc_image(df.rows[i].image).img

\* the tasks completed out of input order and the two images differ
C1_Witness ==
    /\ Constructed /\ load_ram
    /\ NRows >= 2
    /\ finished[1] = 2
    /\ images[1] # images[2]

\* C2: on a table with a label column, __getitem__(idx) of a row 0..n-1
\* whose file is readable returns (transform(preprocessed image of row idx),
\* target_transform(label of row idx)), the label being 0 exactly for
\* "negative" and 1 otherwise.
C2_GetItemPair ==
    (/\ Constructed /\ df.hasLabel
     /\ ret.op = "getitem" /\ ret.idx + 1 \in 1..NRows
     /\ Readable(ret.idx + 1)) =>
        /\ ret.exc = NoExc
        /\ ret.image = ApplyTransform(transform, preproc_image(df.rows[ret.idx + 1].image).img)
        /\ ret.label = ApplyTargetTransform(target_transform, RowLabel(ret.idx + 1))

\* C3: __len__ returns the number of rows of the table, with or without a
\* label column.
C3_LenIsRowCount ==
    (Constructed /\ ret.op = "len") => (ret.exc = NoExc /\ ret.n = NRows)

\* C4: once __init__ has returned, no call changes the cache: index access
\* hands out a copy, so even a transform that modifies its argument leaves
\* every cache entry as it was.
C4_CacheFrozen == [][Constructed => images' = images]_vars

\* an in-place transform has run on an image taken from the cache
C4_Witness ==
    /\ Constructed /\ load_ram
    /\ transform = "inplace"
    /\ ret.op = "getitem" /\ ret.exc = NoExc
    /\ ret.image.tag = "scribbled"
    /\ images[ret.idx + 1].tag = "RGB"

SomeRowUnreadable == \E i \in 1..NRows : ~Readable(i)

\* C6: with an unreadable file in the table, construction with load_ram=True
\* never yields an object (and no constructed object has a cache shorter than
\* its table); with load_ram=False construction cannot fail, the unreadable
\* row raises when it is accessed and every readable row returns its pair.
C6_NoPartialFailure ==
    /\ (load_ram /\ SomeRowUnreadable) => ~Constructed
    /\ (load_ram /\ Constructed) => Len(images) = NRows
    /\ ~load_ram => pc # "raised"
    /\ (/\ ~load_ram /\ SomeRowUnreadable
        /\ ret.op = "getitem" /\ ret.idx + 1 \in 1..NRows) =>
            IF Readable(ret.idx + 1)
            THEN /\ ret.exc = NoExc
                 /\ ret.image = ApplyTransform(transform,
                                    preproc_image(df.rows[ret.idx + 1].image).img)
                 /\ ret.label = ApplyTargetTransform(target_transform,
                                    IF df.hasLabel THEN RowLabel(ret.idx + 1)
                                    ELSE StrLabel(df.rows[ret.idx + 1].image))
            ELSE ret.exc \in {"FileNotFoundError", "UnidentifiedImageError"}

\* a lazily loading dataset over a table with a bad row was built and the
\* bad row was accessed
C6_Witness ==
    /\ Constructed /\ ~load_ram
    /\ NRows >= 2
    /\ \E i \in 1..NRows : Readable(i)
    /\ ret.op = "getitem" /\ ret.exc = "FileNotFoundError"

====
